---- MODULE Spec2Model ----
(***************************************************************************)
(* AutoStack project generator (src/autostack/main.py).                    *)
(*                                                                         *)
(* The `init` command is a fixed sequence of steps over the file system:   *)
(* root directory, common files, backend, frontend (external tool),        *)
(* Docker, CI, tests.  The state is the file system (directories and       *)
(* files with their contents), the console output of the current           *)
(* invocation, the position inside `init`, and the exception (if any)      *)
(* that left `init` unhandled.  The command can be invoked again on the    *)
(* same file system.                                                       *)
(*                                                                         *)
(* A path is a sequence of names relative to the working directory.        *)
(* A file's contents is the sequence of the chunks written to it.          *)
(* A console line is a sequence of strings: the message followed by the    *)
(* values formatted into it.                                               *)
(***************************************************************************)
EXTENDS Naturals, Sequences, FiniteSets

VARIABLES
    dirs,      \* set of paths that are directories
    files,     \* function: path of a regular file -> contents
    req,       \* options of the current invocation (click arguments)
    pc,        \* position in init: idle, files, backend, frontend, docker, ci, tests, done
    exc,       \* exception that propagated out of init ("None" when none)
    log,       \* console.print lines of the current invocation
    npx,       \* result of the external scaffolding process in this invocation
    runs,      \* number of invocations started so far
    prev       \* summary of the last invocation that ended

vars == <<dirs, files, req, pc, exc, log, npx, runs, prev>>

(* ------------------------------ bounds --------------------------------- *)

MaxRuns == 2

ProjectNames == {"app", "demo"}
Backends == {"fastapi", "flask", "express"}
Frontends == {"react", "vue", "none"}
Stderrs == {"npm ERR! network", "npm ERR! exists"}

Requests ==
    [project_name : ProjectNames, backend : Backends, frontend : Frontends,
     with_docker : BOOLEAN, with_tests : BOOLEAN, with_ci : BOOLEAN]

(* ------------------------------ paths ---------------------------------- *)

Parent(p) == SubSeq(p, 1, Len(p) - 1)

Join(p, name) == Append(p, name)

\* The working directory (the empty path) always exists.
IsDir(ds, p) == p = <<>> \/ p \in ds

(* --------------------------- file system ------------------------------- *)

\* Faulty variant: mkdir() without exist_ok=True.
MkdirNoExistOk(ds, fs, p, fault) ==
    IF fault THEN "OSError"
    ELSE IF p \in DOMAIN fs \/ p \in ds THEN "FileExistsError"
    ELSE IF ~IsDir(ds, Parent(p)) THEN "FileNotFoundError"
    ELSE "None"

\* Path.mkdir(exist_ok=True) without parents: the exception it raises
\* ("None" when it succeeds).  fault is an error of the operating system
\* (permissions, disk full).
MkdirErr(ds, fs, p, fault) ==
    IF fault THEN "OSError"
    ELSE IF p \in DOMAIN fs THEN "FileExistsError"
    ELSE IF p \in ds THEN "None"
    ELSE IF Parent(p) \in DOMAIN fs THEN "NotADirectoryError"
    ELSE IF ~IsDir(ds, Parent(p)) THEN "FileNotFoundError"
    ELSE "None"

\* open(p, mode): the exception it raises ("None" when it succeeds).
OpenErr(ds, fs, p, fault) ==
    IF fault THEN "OSError"
    ELSE IF p \in ds THEN "IsADirectoryError"
    ELSE IF Parent(p) \in DOMAIN fs THEN "NotADirectoryError"
    ELSE IF ~IsDir(ds, Parent(p)) THEN "FileNotFoundError"
    ELSE "None"

\* Faulty variant: the file is opened without truncation, the text lands at its end.
WriteWNoTruncate(fs, p, text) ==
    [q \in DOMAIN fs \cup {p} |->
        IF q = p THEN (IF p \in DOMAIN fs THEN Append(fs[p], text) ELSE <<text>>)
        ELSE fs[q]]

\* with open(p, "w") as f: f.write(text)  -- creates or truncates.
WriteW(fs, p, text) ==
    [q \in DOMAIN fs \cup {p} |-> IF q = p THEN <<text>> ELSE fs[q]]

\* Faulty variant: mode "w" where the code says "a".
WriteAOverwrite(fs, p, text) ==
    [q \in DOMAIN fs \cup {p} |-> IF q = p THEN <<text>> ELSE fs[q]]

\* with open(p, "a") as f: f.write(text)  -- creates or appends.
WriteA(fs, p, text) ==
    [q \in DOMAIN fs \cup {p} |->
        IF q = p THEN (IF p \in DOMAIN fs THEN Append(fs[p], text) ELSE <<text>>)
        ELSE fs[q]]

WriteOp(fs, op) ==
    IF op.mode = "w" THEN WriteW(fs, op.path, op.text) ELSE WriteA(fs, op.path, op.text)

\* The open/write statements of one function, in program order.  k is the
\* index of the statement hit by an operating-system or template error
\* (0: none).  The first failing statement raises and the rest do not run.
RECURSIVE WriteAll(_, _, _, _, _)
WriteAll(ds, fs, ops, i, k) ==
    IF i > Len(ops) THEN [exc |-> "None", files |-> fs]
    ELSE LET e == OpenErr(ds, fs, ops[i].path, i = k)
         IN  IF e # "None" THEN [exc |-> e, files |-> fs]
             ELSE WriteAll(ds, WriteOp(fs, ops[i]), ops, i + 1, k)

(* ----------------------------- templates ------------------------------- *)

\* jinja2 template.render(**ctx): a function of the template and of the
\* values of its context (the template files are assets outside src/).
Render(template, ctx) == <<template>> \o ctx

W(p, text) == [path |-> p, mode |-> "w", text |-> text]
A(p, text) == [path |-> p, mode |-> "a", text |-> text]

PytestLine == <<"\npytest">>

(* --------------------------- console lines ----------------------------- *)

ErrorMsgs ==
    {"Error creating project directory", "Error creating backend directory",
     "Error creating React frontend", "Error creating .github/workflows directory",
     "Error creating backend tests directory"}

Printed(lg, msg) == \E i \in 1..Len(lg) : lg[i][1] = msg

PrintedLine(lg, line) == \E i \in 1..Len(lg) : lg[i] = line

NoErrorPrinted(lg) == \A i \in 1..Len(lg) : lg[i][1] \notin ErrorMsgs

\* Position of the first line carrying msg (0 when it was never printed).
RECURSIVE IndexOf(_, _, _)
IndexOf(lg, msg, i) ==
    IF i > Len(lg) THEN 0
    ELSE IF lg[i][1] = msg THEN i
    ELSE IndexOf(lg, msg, i + 1)

(* ------------------------ the steps of init ---------------------------- *)

\* What a step function did: the file system it leaves, the lines it
\* printed and the exception it raised ("None" when it returned).
Outcome(ds, fs, lines, e) == [dirs |-> ds, files |-> fs, lines |-> lines, exc |-> e]

Root(r) == <<r.project_name>>

\* init, lines 24-33: the greeting and the root directory.
CreateRoot(ds, fs, r, fault) ==
    LET e == MkdirErr(ds, fs, Root(r), fault)
        hello == <<"Initializing project", r.project_name>>
    IN  IF e = "None"
        THEN Outcome(ds \cup {Root(r)}, fs,
                     <<hello, <<"Created project directory", r.project_name>>>>, "None")
        ELSE Outcome(ds, fs, <<hello, <<"Error creating project directory", e>>>>, "None")

\* Faulty variant: README.md rendered without its project_name.
ProjectFileOpsNoName(r) ==
    << [path |-> <<r.project_name, ".gitignore">>, mode |-> "w", text |-> <<".gitignore.j2">>],
       [path |-> <<r.project_name, "README.md">>, mode |-> "w", text |-> <<"README.md.j2">>] >>

ProjectFileOps(r) ==
    << W(Join(Root(r), ".gitignore"), Render(".gitignore.j2", <<>>)),
       W(Join(Root(r), "README.md"), Render("README.md.j2", <<r.project_name>>)) >>

create_project_files(ds, fs, r, k) ==
    LET w == WriteAll(ds, fs, ProjectFileOps(r), 1, k)
        begin == <<"Creating project files...">>
    IN  IF w.exc = "None"
        THEN Outcome(ds, w.files, <<begin, <<"Created project files">>>>, "None")
        ELSE Outcome(ds, w.files, <<begin>>, w.exc)

BackendPath(r) == Join(Root(r), "backend")

RequirementsPath(r) == Join(BackendPath(r), "requirements.txt")

BackendOps(r) ==
    IF r.backend = "fastapi"
    THEN << W(Join(BackendPath(r), "main.py"), Render("fastapi_main.py.j2", <<>>)),
            W(RequirementsPath(r), Render("fastapi_requirements.txt.j2", <<>>)) >>
    ELSE << >>

create_backend(ds, fs, r, fault, k) ==
    LET e == MkdirErr(ds, fs, BackendPath(r), fault)
        begin == <<"Creating backend", r.backend>>
        ds2 == ds \cup {BackendPath(r)}
        w == WriteAll(ds2, fs, BackendOps(r), 1, k)
    IN  IF e # "None"
        THEN Outcome(ds, fs, <<begin, <<"Error creating backend directory", e>>>>, "None")
        ELSE IF w.exc = "None"
        THEN Outcome(ds2, w.files, <<begin, <<"Created backend files for", r.backend>>>>, "None")
        ELSE Outcome(ds2, w.files, <<begin>>, w.exc)

ClientPath(r) == Join(Root(r), "client")

\* What `npx create-vite@latest <client> --template react` can do:
\* exit 0 having scaffolded the directory; exit non-zero with a text on its
\* standard error, having created the directory or not; or not be found
\* on the execution path.
NotInvoked == [kind |-> "none", stderr |-> "", made |-> FALSE]

ToolResults ==
    {[kind |-> "ok", stderr |-> "", made |-> TRUE]}
    \cup [kind : {"failed"}, stderr : Stderrs, made : BOOLEAN]
    \cup {[kind |-> "missing", stderr |-> "", made |-> FALSE]}

Scaffold(ds, fs, r, t) ==
    [dirs |-> IF t.made THEN ds \cup {ClientPath(r)} ELSE ds,
     files |-> IF t.kind = "ok"
               THEN WriteW(fs, Join(ClientPath(r), "package.json"), <<"create-vite", "react">>)
               ELSE fs]

\* Faulty variant: the diagnostic formats the exception, not its captured stderr.
create_frontend_prints_e(ds, fs, r, t) ==
    LET begin == <<"Creating frontend", r.frontend>>
        s == Scaffold(ds, fs, r, t)
    IN  IF r.frontend = "react"
        THEN IF t.kind = "ok"
             THEN Outcome(s.dirs, s.files, <<begin, <<"Created frontend files for", r.frontend>>>>, "None")
             ELSE IF t.kind = "failed"
             THEN Outcome(s.dirs, s.files,
                          <<begin, <<"Error creating React frontend", "CalledProcessError">>>>, "None")
             ELSE Outcome(ds, fs, <<begin>>, "FileNotFoundError")
        ELSE Outcome(ds, fs, <<begin>>, "None")

create_frontend(ds, fs, r, t) ==
    LET begin == <<"Creating frontend", r.frontend>>
        s == Scaffold(ds, fs, r, t)
    IN  IF r.frontend = "react"
        THEN IF t.kind = "ok"
             THEN Outcome(s.dirs, s.files, <<begin, <<"Created frontend files for", r.frontend>>>>, "None")
             ELSE IF t.kind = "failed"
             THEN Outcome(s.dirs, s.files, <<begin, <<"Error creating React frontend", t.stderr>>>>, "None")
             ELSE Outcome(ds, fs, <<begin>>, "FileNotFoundError")
        ELSE Outcome(ds, fs, <<begin>>, "None")

DockerOps(r) ==
    << W(Join(Root(r), "Dockerfile"), Render("Dockerfile.j2", <<>>)),
       W(Join(Root(r), "docker-compose.yml"), Render("docker-compose.yml.j2", <<r.frontend>>)) >>
    \o (IF r.frontend # "none"
        THEN << W(Join(ClientPath(r), "Dockerfile.frontend"), Render("Dockerfile.frontend.j2", <<>>)) >>
        ELSE << >>)

create_docker_files(ds, fs, r, k) ==
    LET w == WriteAll(ds, fs, DockerOps(r), 1, k)
        begin == <<"Creating Docker files...">>
    IN  IF w.exc = "None"
        THEN Outcome(ds, w.files, <<begin, <<"Created Docker files">>>>, "None")
        ELSE Outcome(ds, w.files, <<begin>>, w.exc)

GithubPath(r) == Join(Root(r), ".github")

WorkflowsPath(r) == Join(GithubPath(r), "workflows")

CiOps(r) == << W(Join(WorkflowsPath(r), "ci.yml"), Render("ci.yml.j2", <<r.frontend>>)) >>

\* mkdir(parents=True, exist_ok=True): fault is "none", "first" (the error hits
\* while creating .github) or "second" (.github is created, workflows is not).
create_ci_cd(ds, fs, r, fault, k) ==
    LET begin == <<"Creating CI/CD files...">>
        e1 == MkdirErr(ds, fs, GithubPath(r), fault = "first")
        ds1 == ds \cup {GithubPath(r)}
        e2 == MkdirErr(ds1, fs, WorkflowsPath(r), fault = "second")
        ds2 == ds1 \cup {WorkflowsPath(r)}
        w == WriteAll(ds2, fs, CiOps(r), 1, k)
    IN  IF e1 # "None"
        THEN Outcome(ds, fs, <<begin, <<"Error creating .github/workflows directory", e1>>>>, "None")
        ELSE IF e2 # "None"
        THEN Outcome(ds1, fs, <<begin, <<"Error creating .github/workflows directory", e2>>>>, "None")
        ELSE IF w.exc = "None"
        THEN Outcome(ds2, w.files, <<begin, <<"Created CI/CD files">>>>, "None")
        ELSE Outcome(ds2, w.files, <<begin>>, w.exc)

TestsPath(r) == Join(BackendPath(r), "tests")

TestOps(r) ==
    IF r.backend = "fastapi"
    THEN << W(Join(TestsPath(r), "test_main.py"), Render("test_main.py.j2", <<>>)),
            A(RequirementsPath(r), PytestLine) >>
    ELSE << >>

create_tests(ds, fs, r, fault, k) ==
    LET begin == <<"Creating tests...">>
        e == IF r.backend = "fastapi" THEN MkdirErr(ds, fs, TestsPath(r), fault) ELSE "None"
        ds2 == IF r.backend = "fastapi" THEN ds \cup {TestsPath(r)} ELSE ds
        w == WriteAll(ds2, fs, TestOps(r), 1, k)
        jest == IF r.frontend = "react"
                THEN << <<"Jest is included by default with vite react template.">> >>
                ELSE << >>
    IN  IF e # "None"
        THEN Outcome(ds, fs, <<begin, <<"Error creating backend tests directory", e>>>>, "None")
        ELSE IF w.exc = "None"
        THEN Outcome(ds2, w.files, <<begin>> \o jest \o << <<"Created tests">> >>, "None")
        ELSE Outcome(ds2, w.files, <<begin>>, w.exc)

(* ------------------------ the dispatch of init ------------------------- *)

StepOrder == <<"files", "backend", "frontend", "docker", "ci", "tests">>

\* The conditions of init, lines 35-48.
Selected(r, step) ==
    CASE step = "files" -> TRUE
      [] step = "backend" -> TRUE
      [] step = "frontend" -> r.frontend # "none"
      [] step = "docker" -> r.with_docker
      [] step = "ci" -> r.with_ci
      [] step = "tests" -> r.with_tests

\* The first selected step after position i of StepOrder ("done": init returns).
RECURSIVE NextStep(_, _)
NextStep(r, i) ==
    IF i >= Len(StepOrder) THEN "done"
    ELSE IF Selected(r, StepOrder[i + 1]) THEN StepOrder[i + 1]
    ELSE NextStep(r, i + 1)

StepIndex(step) == CHOOSE i \in 1..Len(StepOrder) : StepOrder[i] = step

(* --------------------------- the state machine ------------------------- *)

NoRequest ==
    [project_name |-> "app", backend |-> "fastapi", frontend |-> "none",
     with_docker |-> FALSE, with_tests |-> FALSE, with_ci |-> FALSE]

Init ==
    /\ dirs = {}
    /\ files = [p \in {} |-> <<>>]
    /\ req = NoRequest
    /\ pc = "idle"
    /\ exc = "None"
    /\ log = <<>>
    /\ npx = NotInvoked
    /\ runs = 0
    /\ prev = [project_name |-> "", clean_tests |-> FALSE]

\* An invocation that printed no error, raised nothing and ran the tests
\* step of the fastapi backend to its end.
CleanTestsRun(r, lg, e) ==
    /\ e = "None"
    /\ NoErrorPrinted(lg)
    /\ r.with_tests /\ r.backend = "fastapi"
    /\ Printed(lg, "Created tests")

Summary(r, lg, e) == [project_name |-> r.project_name, clean_tests |-> CleanTestsRun(r, lg, e)]

\* A step function ran with outcome o; init goes on to the next selected
\* step, or ends when the step raised.
Apply(o, step) ==
    /\ dirs' = o.dirs
    /\ files' = o.files
    /\ log' = log \o o.lines
    /\ exc' = o.exc
    /\ pc' = IF o.exc # "None" THEN "done" ELSE NextStep(req, StepIndex(step))
    /\ UNCHANGED <<req, runs, prev>>

\* Successive invocations are given the same project name: invocations
\* with different names work on disjoint subtrees of the working directory.
SameTarget(r) == prev.project_name \in {"", r.project_name}

\* init, lines 22-33.
InitCmd ==
    /\ pc = "idle"
    /\ runs < MaxRuns
    /\ \E r \in Requests, fault \in BOOLEAN :
          LET o == CreateRoot(dirs, files, r, fault)
          IN  /\ SameTarget(r)
              /\ req' = r
              /\ dirs' = o.dirs
              /\ files' = o.files
              /\ log' = o.lines
              /\ exc' = "None"
              /\ pc' = IF Printed(o.lines, "Error creating project directory")
                       THEN "done" ELSE "files"
    /\ npx' = NotInvoked
    /\ runs' = runs + 1
    /\ UNCHANGED prev

\* cli() is over (init returned, or an exception ended the process): the
\* console and the options are gone, the file system stays.
Exit ==
    /\ pc = "done"
    /\ pc' = "idle"
    /\ req' = NoRequest
    /\ log' = <<>>
    /\ exc' = "None"
    /\ npx' = NotInvoked
    /\ prev' = Summary(req, log, exc)
    /\ UNCHANGED <<dirs, files, runs>>

CreateProjectFiles ==
    /\ pc = "files"
    /\ \E k \in 0..Len(ProjectFileOps(req)) :
          Apply(create_project_files(dirs, files, req, k), "files")
    /\ UNCHANGED npx

CreateBackend ==
    /\ pc = "backend"
    /\ \E fault \in BOOLEAN, k \in 0..Len(BackendOps(req)) :
          /\ fault => k = 0
          /\ Apply(create_backend(dirs, files, req, fault, k), "backend")
    /\ UNCHANGED npx

CreateFrontend ==
    /\ pc = "frontend"
    /\ \E t \in ToolResults :
          /\ req.frontend # "react" => t.kind = "ok"
          /\ Apply(create_frontend(dirs, files, req, t), "frontend")
          /\ npx' = IF req.frontend = "react" THEN t ELSE NotInvoked

CreateDockerFiles ==
    /\ pc = "docker"
    /\ \E k \in 0..Len(DockerOps(req)) :
          Apply(create_docker_files(dirs, files, req, k), "docker")
    /\ UNCHANGED npx

CreateCiCd ==
    /\ pc = "ci"
    /\ \E fault \in {"none", "first", "second"}, k \in 0..Len(CiOps(req)) :
          /\ fault # "none" => k = 0
          /\ Apply(create_ci_cd(dirs, files, req, fault, k), "ci")
    /\ UNCHANGED npx

CreateTests ==
    /\ pc = "tests"
    /\ \E fault \in BOOLEAN, k \in 0..Len(TestOps(req)) :
          /\ fault => (k = 0 /\ req.backend = "fastapi")
          /\ Apply(create_tests(dirs, files, req, fault, k), "tests")
    /\ UNCHANGED npx

Next ==
    \/ InitCmd
    \/ CreateProjectFiles
    \/ CreateBackend
    \/ CreateFrontend
    \/ CreateDockerFiles
    \/ CreateCiCd
    \/ CreateTests
    \/ Exit

Spec == Init /\ [][Next]_vars

(* ------------------------------ properties ---------------------------- *)

Returned == pc = "done" /\ exc = "None"

\* The invocation was ended by something outside the program: an error of
\* the operating system or of the template engine at a write, or the
\* external tool missing from the execution path.
EndedByEnvironment == exc = "OSError" \/ npx.kind = "missing"

\* A directory creation of this invocation was refused by the operating system.
DirFaultPrinted == \E i \in 1..Len(log) : log[i][1] \in ErrorMsgs /\ log[i][2] = "OSError"

Count(content, chunk) == Cardinality({i \in 1..Len(content) : content[i] = chunk})

Has(p) == p \in DOMAIN files

P(name) == <<req.project_name, name>>

PB(name) == <<req.project_name, "backend", name>>

UnderClient(p) == Len(p) >= 2 /\ p[2] = "client"

AllDefaults ==
    /\ req.backend = "fastapi" /\ req.frontend = "none"
    /\ ~req.with_docker /\ ~req.with_tests /\ ~req.with_ci

\* C1: the first invocation into an empty working directory, with every
\* option at its default and no failure, leaves exactly the root directory,
\* .gitignore, README.md (rendered with the project name), backend/,
\* backend/main.py and backend/requirements.txt.
C1_DefaultTree ==
    (Returned /\ runs = 1 /\ AllDefaults /\ NoErrorPrinted(log)) =>
        /\ dirs = {<<req.project_name>>, <<req.project_name, "backend">>}
        /\ DOMAIN files = {P(".gitignore"), P("README.md"), PB("main.py"), PB("requirements.txt")}
        /\ files[P("README.md")] = << <<"README.md.j2", req.project_name>> >>
        /\ files[P(".gitignore")] = << <<".gitignore.j2">> >>

C1_Witness == Returned /\ runs = 1 /\ AllDefaults /\ NoErrorPrinted(log) /\ req.project_name = "demo"

TestsRunClean ==
    /\ Returned /\ NoErrorPrinted(log)
    /\ req.with_tests /\ req.backend = "fastapi"

\* C2 (as claimed): after a second failure-free invocation with --with-tests
\* and backend=fastapi into the same target, backend/requirements.txt holds
\* the pytest line twice.
C2_AppendedTwice ==
    (runs = 2 /\ prev.clean_tests /\ TestsRunClean) =>
        Count(files[PB("requirements.txt")], <<"\npytest">>) = 2

\* C2 (amended): after a failure-free invocation with --with-tests and
\* backend=fastapi that follows another one into the same target,
\* backend/requirements.txt holds the pytest line exactly once: the backend
\* step rewrites the file before the tests step appends to it.
C2_AppendedOnce ==
    (runs >= 2 /\ prev.clean_tests /\ TestsRunClean) =>
        /\ Has(PB("requirements.txt"))
        /\ Count(files[PB("requirements.txt")], <<"\npytest">>) = 1

C2_Witness == runs = 2 /\ prev.clean_tests /\ TestsRunClean

\* C3 (as claimed): the Docker step writes Dockerfile and docker-compose.yml;
\* with frontend=none it writes no client/Dockerfile.frontend; with any other
\* frontend it also writes client/Dockerfile.frontend and completes.
C3_DockerStep ==
    (Printed(log, "Creating Docker files...") /\ ~EndedByEnvironment) =>
        /\ Has(P("Dockerfile")) /\ Has(P("docker-compose.yml"))
        /\ (req.frontend = "none" /\ runs = 1) => ~Has(<<req.project_name, "client", "Dockerfile.frontend">>)
        /\ req.frontend # "none" =>
              /\ Has(<<req.project_name, "client", "Dockerfile.frontend">>)
              /\ Printed(log, "Created Docker files")
              /\ exc = "None"

\* C4 (as claimed): with frontend=vue, whatever the other options, the
\* invocation reports no error, runs every requested step to its end,
\* returns normally and leaves no file under client/.
C4_VueNoOp ==
    (pc = "done" /\ req.frontend = "vue" /\ ~EndedByEnvironment /\ ~DirFaultPrinted) =>
        /\ exc = "None"
        /\ NoErrorPrinted(log)
        /\ req.with_docker => Printed(log, "Created Docker files")
        /\ req.with_ci => Printed(log, "Created CI/CD files")
        /\ req.with_tests => Printed(log, "Created tests")
        /\ runs = 1 => \A p \in DOMAIN files : ~UnderClient(p)

BackendWritten == Printed(log, "Created backend files for") /\ req.backend = "fastapi"

\* C5: when the backend step and the tests step of one invocation both run
\* to their end with backend=fastapi, backend/tests/test_main.py exists and
\* backend/requirements.txt is the rendered dependency list followed by the
\* pytest line.
C5_TestsAppend ==
    (BackendWritten /\ Printed(log, "Created tests")) =>
        /\ Has(<<req.project_name, "backend", "tests", "test_main.py">>)
        /\ Has(PB("requirements.txt"))
        /\ files[PB("requirements.txt")] = << <<"fastapi_requirements.txt.j2">>, <<"\npytest">> >>

C5_Witness == BackendWritten /\ Printed(log, "Created tests") /\ TestsRunClean /\ runs = 1

ToolFailed == npx.kind = "failed"

EarlyFilesPresent ==
    /\ Has(P(".gitignore")) /\ files[P(".gitignore")] = << <<".gitignore.j2">> >>
    /\ Has(P("README.md")) /\ files[P("README.md")] = << <<"README.md.j2", req.project_name>> >>
    /\ BackendWritten =>
          (Has(PB("main.py")) /\ files[PB("main.py")] = << <<"fastapi_main.py.j2">> >>)

\* C6 (as claimed): when the external tool exits non-zero, the diagnostic
\* with its standard error is printed and, at the end of the invocation,
\* every file written by the earlier steps is present with the contents
\* that step wrote.
C6_EarlyFilesUnchanged ==
    (pc = "done" /\ ToolFailed) =>
        /\ PrintedLine(log, <<"Error creating React frontend", npx.stderr>>)
        /\ EarlyFilesPresent
        /\ BackendWritten =>
              /\ Has(PB("requirements.txt"))
              /\ files[PB("requirements.txt")] = << <<"fastapi_requirements.txt.j2">> >>

\* C6 (amended): when the external tool exits non-zero, the diagnostic with
\* its standard error is printed and, at the end of the invocation, every
\* file written by the earlier steps is present; .gitignore, README.md and
\* backend/main.py have the contents written, and backend/requirements.txt
\* has them followed by the pytest line exactly when the tests step ran to
\* its end.
C6_EarlyFilesKept ==
    (pc = "done" /\ ToolFailed) =>
        /\ PrintedLine(log, <<"Error creating React frontend", npx.stderr>>)
        /\ EarlyFilesPresent
        /\ BackendWritten =>
              /\ Has(PB("requirements.txt"))
              /\ files[PB("requirements.txt")] =
                    << <<"fastapi_requirements.txt.j2">> >>
                    \o (IF Printed(log, "Created tests") THEN << <<"\npytest">> >> ELSE << >>)

C6_Witness ==
    /\ pc = "done" /\ ToolFailed /\ BackendWritten
    /\ npx.stderr = "npm ERR! exists"
    /\ Printed(log, "Created tests")

\* C7 (as claimed): when the external tool exits non-zero, every other
\* requested step after the frontend step still runs to its end and the
\* invocation returns normally.
C7_OtherStepsRun ==
    (pc = "done" /\ ToolFailed /\ ~EndedByEnvironment /\ ~DirFaultPrinted) =>
        /\ exc = "None"
        /\ req.with_docker => Printed(log, "Created Docker files")
        /\ req.with_ci => Printed(log, "Created CI/CD files")
        /\ req.with_tests => Printed(log, "Created tests")

RootFailed(lg) == Printed(lg, "Error creating project directory")

\* C8: when the creation of the root directory fails, the error is printed
\* and the invocation ends there, returning normally: no later step runs,
\* the file system is left as it was and the external tool is not invoked;
\* the only failure is an error of the operating system, never the
\* directory already existing.
C8_RootFailureAborts ==
    [][ RootFailed(log') =>
          /\ pc' = "done" /\ exc' = "None"
          /\ log' = << <<"Initializing project", req'.project_name>>,
                       <<"Error creating project directory", "OSError">> >>
          /\ files' = files /\ dirs' = dirs
          /\ npx'.kind = "none" ]_vars

C8_Witness == RootFailed(log) /\ runs = 2 /\ P("README.md") \in DOMAIN files

BeginMsg(step) ==
    CASE step = "files" -> "Creating project files..."
      [] step = "backend" -> "Creating backend"
      [] step = "frontend" -> "Creating frontend"
      [] step = "docker" -> "Creating Docker files..."
      [] step = "ci" -> "Creating CI/CD files..."
      [] step = "tests" -> "Creating tests..."

DirErrorMsg(step) ==
    CASE step = "backend" -> "Error creating backend directory"
      [] step = "ci" -> "Error creating .github/workflows directory"
      [] step = "tests" -> "Error creating backend tests directory"

Requested(step) ==
    CASE step = "files" -> TRUE
      [] step = "backend" -> TRUE
      [] step = "frontend" -> req.frontend # "none"
      [] step = "docker" -> req.with_docker
      [] step = "ci" -> req.with_ci
      [] step = "tests" -> req.with_tests

Steps == <<"files", "backend", "frontend", "docker", "ci", "tests">>

\* C9 (as claimed): when the directory creation of the backend, CI or tests
\* step fails, the step prints its diagnostic and writes no file, nothing is
\* thrown, and every later requested step is still attempted.
C9_DirFailureContained ==
    [][ /\ \A i \in {2, 5, 6} :
             (Printed(log', DirErrorMsg(Steps[i])) /\ ~Printed(log, DirErrorMsg(Steps[i])))
                 => (files' = files /\ exc' = "None")
        /\ (pc' = "done" /\ exc' # "OSError" /\ npx'.kind # "missing") =>
             \A i \in {2, 5, 6} :
                Printed(log', DirErrorMsg(Steps[i])) =>
                   \A j \in (i + 1)..6 :
                      Requested(Steps[j])' => Printed(log', BeginMsg(Steps[j])) ]_vars

\* C10 (as claimed): once the root directory exists the steps run in the
\* fixed order, the common-files and backend steps always run, and each
\* optional step runs exactly when its option selects it.
C10_FixedOrder ==
    (pc = "done" /\ Printed(log, "Created project directory") /\ ~EndedByEnvironment) =>
        /\ \A i \in 1..6 : Printed(log, BeginMsg(Steps[i])) <=> Requested(Steps[i])
        /\ \A i, j \in 1..6 :
              (i < j /\ Printed(log, BeginMsg(Steps[i])) /\ Printed(log, BeginMsg(Steps[j])))
                 => IndexOf(log, BeginMsg(Steps[i]), 1) < IndexOf(log, BeginMsg(Steps[j]), 1)

====
